---------------------------- MODULE Spec2Model ----------------------------
(***************************************************************************)
(* Model of the search-enrich-report pipeline of search_agent:             *)
(*   tools/url_shortener.py  UrlShortener (the URL identity cache)         *)
(*   tools/search.py         GoogleSearchTool (search, enrichment, fetch)  *)
(*   tools/summarizer.py     ContentSummarizer (enrichment, fetch)         *)
(*   tools/agent.py          LLMAgent (process_query, report synthesis)    *)
(*                                                                         *)
(* Text is a sequence of tokens.  A token is a string standing for one     *)
(* character or one fixed literal of the program's strings:                *)
(*   "H"        the scheme literal  http:// (or https://)                  *)
(*   "a" "b"    ordinary URL characters                                    *)
(*   "."        a punctuation character (not excluded by the URL regex)    *)
(*   " " ")"    characters the URL regex excludes (whitespace, bracket)    *)
(*   "S"        the literal short.url/ of the local short form             *)
(*   "T"        the literal tinyurl.com/ of the external short form        *)
(*   "#..."     the 8 hex digits of md5(url), one token per url            *)
(*   "t..."     the alias TinyURL answers for url, one token per url       *)
(***************************************************************************)
EXTENDS Naturals, Sequences, FiniteSets, TLC

VARIABLES
    short_urls_cache,   \* [Insts -> dict]: UrlShortener.short_urls_cache of each instance
    call,               \* [Tasks -> record]: the shorten() call each task is in
    firstReturn         \* history: [Insts -> dict]: what the first shorten(url) to return returned

VARIABLES
    fetch,              \* the page fetch in progress: one call of a fetcher
    search_results,     \* _enrich_search_results: the list it was given
    enriched_results,   \* _enrich_search_results: the list it builds
    enrich_pc,          \* _enrich_search_results: "loop", "done" (returned) or "off"
    fetched,            \* history: what get_page_content returned per position
    page_requests       \* history: how many requests for pages were sent, and for which urls

VARIABLES
    report_pc,          \* _generate_comprehensive_report: "off", "completion" (awaiting the
                        \* provider), "pass" (consistency pass), "returned", "fallback"
    report_results,     \* its search_results argument
    url_map,            \* its url_map
    narrative,          \* the text the completion provider answered
    report,             \* its report
    urls_in_report,     \* the URLs found in the narrative that the pass has yet to visit
    context             \* its context: per result, which text the block of the result holds

VARIABLES
    search_pc,          \* search(): "off", "request" (awaiting the provider), "items" (the
                        \* loop over the items), "enrich", "returned", "raised"
    deep_search,        \* its deep_search argument
    items,              \* the items of the provider's response
    formatted_results,  \* its formatted_results
    search_return,      \* the list it returned
    num                 \* params["num"]: the result cap sent to the provider

VARIABLES
    summ_pc,            \* ContentSummarizer._enrich_search_results: "off", "gather"
                        \* (awaiting asyncio.gather), "done" (returned)
    summ_results,       \* the list it was given
    tasks,              \* the _extract_content_from_url calls handed to asyncio.gather
    summ_enriched       \* the list it returned

VARIABLES
    query_pc,           \* process_query: "off", "analyze" (awaiting _analyze_query),
                        \* "search", "report", "returned", "raised"
    query_analysis,     \* what _analyze_query returned
    search_query,       \* its search_query
    max_results,        \* its max_results
    query_result        \* the dict it returned

VARIABLES
    page,               \* the parsed page handed to an extractor
    extracted           \* what the extractor returned for it

cleanVars == <<page, extracted>>
searchVars == <<search_pc, deep_search, items, formatted_results, search_return, num>>
summVars == <<summ_pc, summ_results, tasks, summ_enriched>>
queryVars == <<query_pc, query_analysis, search_query, max_results, query_result>>
shortVars == <<short_urls_cache, call, firstReturn>>
enrichVars == <<search_results, enriched_results, enrich_pc, fetched>>
reportVars == <<report_pc, report_results, url_map, narrative, report, urls_in_report,
                context>>
vars == <<shortVars, fetch, enrichVars, reportVars, searchVars, summVars, queryVars,
          cleanVars, page_requests>>

(***************************************************************************)
(* Bounds                                                                  *)
(***************************************************************************)
\* concurrent callers of shorten() (queries in flight on one event loop)
NumTasks == 2
\* longest body (characters after the scheme) of a URL handed to shorten()
MaxBody == 2
\* longest list of search results handed to enrichment (the provider's cap
\* is 10; beyond max_urls_to_crawl every further candidate is treated alike)
MaxResults == 6
\* most candidates handed to report synthesis
MaxCands == 2
\* most items in a response of the search provider
MaxItems == 2
\* most items in a response of the search provider within process_query
MaxQueryItems == 1
\* most candidates handed to report synthesis when its answers are short
MaxWide == 4
\* longest list of search results handed to the summarizer's enrichment
MaxSummResults == 2
\* most pieces (a character, or a whole URL of a candidate) of a narrative
MaxPieces == 4
\* most containers, and most paragraphs, of a page
MaxElements == 2

Tasks == 1..NumTasks

(***************************************************************************)
(* Text helpers                                                            *)
(***************************************************************************)
RECURSIVE Flat(_)
\* the characters of a text as one string
Flat(s) == IF s = <<>> THEN "" ELSE Head(s) \o Flat(Tail(s))

RECURSIVE Repeat(_, _)
Repeat(tok, n) == IF n = 0 THEN <<>> ELSE <<tok>> \o Repeat(tok, n - 1)

\* the URLs callers hand to shorten(): a missing link ("") and http URLs
ShortenUrls == {<<>>} \cup {<<"H">> \o Repeat("a", n) : n \in 1..MaxBody}

(***************************************************************************)
(* Text search and replacement                                             *)
(***************************************************************************)
\* the characters the URL regex excludes: whitespace ) ] " '
Delims == {" ", "\n", ")"}

RECURSIVE MatchEnd(_, _)
\* the end of the longest run of non-excluded characters that starts at j
MatchEnd(text, j) ==
    IF j + 1 <= Len(text) /\ text[j + 1] \notin Delims
    THEN MatchEnd(text, j + 1) ELSE j

\* whether the URL regex matches at position i: the scheme and at least one
\* character
MatchesAtEveryScheme(text, i) == text[i] = "H"

MatchesAt(text, i) ==
    text[i] = "H" /\ i + 1 <= Len(text) /\ text[i + 1] \notin Delims

RECURSIVE FindAllFrom(_, _)
FindAllFrom(text, i) ==
    IF i > Len(text) THEN <<>>
    ELSE IF MatchesAt(text, i)
    THEN LET e == MatchEnd(text, i + 1)
         IN <<SubSeq(text, i, e)>> \o FindAllFrom(text, e + 1)
    ELSE FindAllFrom(text, i + 1)

\* re.findall(r'https?://[^\s)\]"\']+', text): the matches, left to right,
\* not overlapping, each as long as possible
FindUrls(text) == FindAllFrom(text, 1)

RECURSIVE ReplaceFrom(_, _, _, _)
ReplaceFrom(text, old, new, i) ==
    IF i > Len(text) THEN <<>>
    ELSE IF i + Len(old) - 1 <= Len(text) /\ SubSeq(text, i, i + Len(old) - 1) = old
    THEN new \o ReplaceFrom(text, old, new, i + Len(old))
    ELSE <<text[i]>> \o ReplaceFrom(text, old, new, i + 1)

\* text.replace(old, new) for a non-empty old: every occurrence, left to
\* right, not overlapping
Replace(text, old, new) == ReplaceFrom(text, old, new, 1)

\* sub in text
IsSubstring(sub, text) ==
    \E i \in 0..(Len(text) - Len(sub)) : SubSeq(text, i + 1, i + Len(sub)) = sub

RECURSIVE SplitFrom(_, _, _)
SplitFrom(text, i, word) ==
    IF i > Len(text) THEN <<word>>
    ELSE IF text[i] \in Delims THEN <<word>> \o SplitFrom(text, i + 1, <<>>)
    ELSE SplitFrom(text, i + 1, Append(word, text[i]))

\* the runs of text between excluded characters, in order (one more than
\* there are excluded characters)
Words(text) == SplitFrom(text, 1, <<>>)

RECURSIVE ListsUpTo(_, _)
\* the lists of at most n elements of S
ListsUpTo(S, n) ==
    IF n = 0 THEN {<<>>}
    ELSE LET shorter == ListsUpTo(S, n - 1)
         IN shorter \cup {Append(l, x) : l \in shorter, x \in S}

RECURSIVE Concat(_)
\* the texts of a sequence joined
Concat(ss) == IF ss = <<>> THEN <<>> ELSE Head(ss) \o Concat(Tail(ss))

(***************************************************************************)
(* UrlShortener                                                            *)
(***************************************************************************)
\* the two UrlShortener objects of the process
Insts == {"search", "agent"}

\* UrlShortener(use_external_api=True) in both constructors
use_external_api == [i \in Insts |-> TRUE]

\* the outcomes of client.get(tinyurl_api, timeout=5.0):
\*   "ok"      status 200 with the alias as body
\*   "empty"   status 200 with an empty body
\*   "status"  a status other than 200
\*   "error"   an exception (timeout, network error)
ExtOutcomes == {"ok", "empty", "status", "error"}

\* the plain-text body TinyURL answers for url
TinyUrl(url) == <<"H", "T", "t" \o Flat(url)>>

\* Optional[str]
None == [isNone |-> TRUE, text |-> <<>>]
Some(s) == [isNone |-> FALSE, text |-> s]
\* Python truthiness of an Optional[str]
Truthy(v) == ~v.isNone /\ v.text # <<>>

\* as _shorten_with_external_api, with the except clause dropped: the
\* exception of the request propagates
ExternalApiNoCatch(url, outcome) ==
    CASE outcome = "ok"     -> [raised |-> FALSE, value |-> Some(TinyUrl(url))]
      [] outcome = "empty"  -> [raised |-> FALSE, value |-> Some(<<>>)]
      [] outcome = "status" -> [raised |-> FALSE, value |-> None]
      [] outcome = "error"  -> [raised |-> TRUE,  value |-> None]

\* _shorten_with_external_api: the body on status 200, None otherwise;
\* every exception is caught and gives None
shorten_with_external_api(url, outcome) ==
    CASE outcome = "ok"     -> [raised |-> FALSE, value |-> Some(TinyUrl(url))]
      [] outcome = "empty"  -> [raised |-> FALSE, value |-> Some(<<>>)]
      [] outcome = "status" -> [raised |-> FALSE, value |-> None]
      [] outcome = "error"  -> [raised |-> FALSE, value |-> None]

\* hexdigest()[:8] of md5(url): one token per url (no collisions within the
\* bounded universe)
Md5Code(url) == "#" \o Flat(url)

\* _shorten_locally: https://short.url/<code>
shorten_locally(url) == <<"H", "S", Md5Code(url)>>

\* dict assignment d[k] = v
DictPut(d, k, v) == [x \in DOMAIN d \cup {k} |-> IF x = k THEN v ELSE d[x]]

EmptyDict == [x \in {} |-> <<>>]

\* shorten() from the return of the external call to its own return: what it
\* stores and returns
ShortenStoreBuggy(d, url, ext) ==
    IF Truthy(ext)
    THEN [cache |-> DictPut(d, url, ext.text), ret |-> ext.text]
    ELSE [cache |-> d, ret |-> ext.text]

ShortenStore(d, url, ext) ==
    IF Truthy(ext)
    THEN [cache |-> DictPut(d, url, ext.text), ret |-> ext.text]
    ELSE [cache |-> DictPut(d, url, shorten_locally(url)),
          ret   |-> shorten_locally(url)]

\* the cache check that opens shorten()
CacheHitNever(d, url) == FALSE

CacheHit(d, url) == url \in DOMAIN d

\* shorten(url) as one step on the cache d of an instance:
\* what it stores and returns
shorten(d, url, outcome) ==
    IF CacheHit(d, url) THEN [cache |-> d, ret |-> d[url]]
    ELSE ShortenStore(d, url, shorten_with_external_api(url, outcome).value)

\* no shorten() call in progress, nothing cached
IdleCall == [pc |-> "idle", inst |-> "search", url |-> <<>>, ret |-> <<>>,
             io |-> FALSE, after |-> FALSE, outcome |-> "none"]

ShortenerIdle ==
    /\ short_urls_cache = [i \in Insts |-> EmptyDict]
    /\ call = [t \in Tasks |-> IdleCall]
    /\ firstReturn = [i \in Insts |-> EmptyDict]

(***************************************************************************)
(* Content extractors: GoogleSearchTool._clean_html_content and            *)
(* ContentSummarizer._clean_html                                           *)
(*                                                                         *)
(* A parsed page is described by the lengths of the visible text of its    *)
(* elements, once script, style, navigation and the like are removed:      *)
(*   containers  the elements matched by article, main, div.content,       *)
(*               div.article, div.post, in the order select() yields them  *)
(*   body        the body elements (none in a fragment without <body>)     *)
(*   paragraphs  the <p> elements                                          *)
(*   text        the whole page                                            *)
(*   broken      the parser raises on the markup                           *)
(* An element holds one run of text, so the length that ranks it and the   *)
(* length of the text taken from it are the same number.                   *)
(***************************************************************************)

max_content_length == 10000
min_element_length == 100

Min(a, b) == IF a < b THEN a ELSE b

\* text lengths around the two thresholds of the extractors
Lengths == {0, 50, min_element_length, min_element_length + 1,
            max_content_length, max_content_length + 1}

RECURSIVE Sum(_)
Sum(lens) == IF lens = <<>> THEN 0 ELSE Head(lens) + Sum(Tail(lens))

NonEmpty(lens) == {i \in 1..Len(lens) : lens[i] > 0}

\* len(' '.join(p.get_text(strip=True) for p in paragraphs))
JoinedRawLen(lens) == IF lens = <<>> THEN 0 ELSE Sum(lens) + Len(lens) - 1

\* its length after re.sub(r'\s+', ' ', ...).strip(): the separators next to
\* an empty paragraph collapse or are stripped
JoinedLen(lens) ==
    IF NonEmpty(lens) = {} THEN 0 ELSE Sum(lens) + Cardinality(NonEmpty(lens)) - 1

BrokenPage == [broken |-> TRUE, containers |-> <<>>, body |-> <<>>,
               paragraphs |-> <<>>, text |-> 0]

LengthLists(n) == UNION {[1..k -> Lengths] : k \in 0..n}

\* an element's text is part of the page's text
GoodPages ==
    {pg \in [broken : {FALSE}, containers : LengthLists(MaxElements),
             body : LengthLists(1), paragraphs : LengthLists(MaxElements),
             text : Lengths] :
        /\ \A i \in 1..Len(pg.containers) : pg.containers[i] <= pg.text
        /\ \A i \in 1..Len(pg.body) :
              /\ pg.body[i] <= pg.text
              /\ \A j \in 1..Len(pg.containers) : pg.containers[j] <= pg.body[i]
        /\ JoinedLen(pg.paragraphs) <= pg.text}

Pages == GoodPages \cup {BrokenPage}

Src(tag, i) == [tag |-> tag, idx |-> i]

\* potential_content_elements
Elements(pg, with_body) ==
    [i \in 1..Len(pg.containers) |->
        [src |-> Src("container", i), len |-> pg.containers[i], raw |-> pg.containers[i]]]
    \o (IF with_body
        THEN [i \in 1..Len(pg.body) |->
                [src |-> Src("body", i), len |-> pg.body[i], raw |-> pg.body[i]]]
        ELSE <<>>)

\* max(elements, key=len of text): the first of the longest
Longest(els) ==
    els[CHOOSE i \in 1..Len(els) :
            /\ \A j \in 1..Len(els) : els[j].len <= els[i].len
            /\ \A j \in 1..(i - 1) : els[j].len < els[i].len]

IsLong(el) == el.len > min_element_length

\* the else branch of both cleaners: the paragraphs, else the whole page
ParagraphsOrPage(pg) ==
    IF pg.paragraphs # <<>>
    THEN [src |-> Src("paragraphs", 0), len |-> JoinedLen(pg.paragraphs),
          raw |-> JoinedRawLen(pg.paragraphs)]
    ELSE [src |-> Src("page", 0), len |-> pg.text, raw |-> pg.text]

\* main_content of GoogleSearchTool._clean_html_content
SearchMainContent(pg) ==
    IF Elements(pg, FALSE) # <<>> THEN Longest(Elements(pg, FALSE))
    ELSE ParagraphsOrPage(pg)

\* filtered_elements if any, else the unfiltered list
SummChoices(els) ==
    IF SelectSeq(els, IsLong) # <<>> THEN SelectSeq(els, IsLong) ELSE els

\* main_content of ContentSummarizer._clean_html
SummMainContent(pg) ==
    IF Elements(pg, TRUE) # <<>> THEN Longest(SummChoices(Elements(pg, TRUE)))
    ELSE ParagraphsOrPage(pg)

\* what an extractor returns: a text (its origin, its length before the
\* marker, whether the marker follows) or one of two fixed strings
Extract(who, kind, src, n, marker) ==
    [who |-> who, kind |-> kind, src |-> src, len |-> n, marker |-> marker]

NoSrc == Src("none", 0)
NoContent(who) == Extract(who, "no_content", NoSrc, 0, FALSE)
ProcessingError(who) == Extract(who, "error", NoSrc, 0, FALSE)
NotExtracted == Extract("nobody", "none", NoSrc, 0, FALSE)

\* the marker tests of the two cleaners, on the length n before the cut
SearchMarker(n) == Min(n, max_content_length) = max_content_length

SummMarker(n) == Min(n, max_content_length) < n

\* the end of both cleaners: an empty main_content gives the fixed string,
\* else the text is collapsed, cut, and the marker added when marked holds
Limit(who, main, marked) ==
    IF main.raw = 0 THEN NoContent(who)
    ELSE Extract(who, "text", main.src, Min(main.len, max_content_length), marked)

search_clean(pg) ==
    IF pg.broken THEN ProcessingError("search")
    ELSE Limit("search", SearchMainContent(pg), SearchMarker(SearchMainContent(pg).len))

summarizer_clean(pg) ==
    IF pg.broken THEN ProcessingError("summarizer")
    ELSE Limit("summarizer", SummMainContent(pg), SummMarker(SummMainContent(pg).len))

NoPage == [BrokenPage EXCEPT !.broken = FALSE]
ExtractOff == page = NoPage /\ extracted = NotExtracted

(***************************************************************************)
(* Page fetchers: GoogleSearchTool.get_page_content and                    *)
(* ContentSummarizer._extract_content_from_url                             *)
(***************************************************************************)
\* max_retries = 2 in get_page_content
max_retries == 2
\* self.max_retries = 3 in ContentSummarizer
summarizer_max_retries == 3
\* self.max_urls_to_crawl = 5 in GoogleSearchTool
max_urls_to_crawl == 5
\* self.max_urls_to_crawl = 10 in ContentSummarizer
summarizer_max_urls_to_crawl == 10

\* response bodies: an empty body, a page with text, markup without text,
\* markup the parser fails on
EmptyHtml == <<>>
Htmls == {EmptyHtml, <<"<article>">>, <<"<blank>">>, <<"<broken>">>}

\* how one client.get(url) ends:
\*   "ok"         a response below status 400
\*   "status"     a response with status in [400, 599]
\*   "transport"  an httpx request error (timeout, connection reset, DNS)
\*   "other"      any other exception (e.g. httpx.InvalidURL)
RetryableKinds == {"status", "transport"}
FetchOutcomes ==
    {[kind |-> "ok", html |-> h] : h \in Htmls}
        \cup {[kind |-> k, html |-> EmptyHtml] : k \in RetryableKinds \cup {"other"}}

\* the parsed page of a response body
ArticlePage == [NoPage EXCEPT !.containers = <<min_element_length + 1>>,
                              !.text = min_element_length + 1]
PageOf(html) ==
    IF html = <<"<broken>">> THEN BrokenPage
    ELSE IF html \in {EmptyHtml, <<"<blank>">>} THEN NoPage
    ELSE ArticlePage

\* the text of what a cleaner returns
NoContentText == <<"NO_MEANINGFUL_CONTENT">>
ProcessingErrorText == <<"CONTENT_PROCESSING_ERROR">>
TextOf(out) ==
    IF out.kind = "error" THEN ProcessingErrorText
    ELSE IF out.kind = "no_content" THEN NoContentText
    ELSE IF out.len = 0 THEN <<>>
    ELSE <<"text">>

clean_html_content(html) == TextOf(search_clean(PageOf(html)))

clean_html(html) == TextOf(summarizer_clean(PageOf(html)))

\* what _extract_content_from_url returns once its retries are used up
StatusErrorText == <<"SITE_RETURNED_ERROR">>
RequestErrorText == <<"REQUEST_FAILED">>

\* the argument of asyncio.sleep between two attempts
backoff_seconds == 1

\* a fetch: where it stands, its url and retry_count, the requests it sent,
\* the sleeps it made and the seconds it slept, how the last request ended
FetchIdle == [pc |-> "idle", who |-> "search", url |-> <<>>, retry_count |-> 0,
              requests |-> 0, sleeps |-> 0, slept |-> 0, last |-> "none",
              result |-> None]

FetchStart(who, url) == [FetchIdle EXCEPT !.pc = "running", !.who = who, !.url = url]

FetchReturn(f, v) == [f EXCEPT !.pc = "returned", !.result = v]

\* the test that guards a retry in get_page_content
RetryLeftNever(retry_count) == retry_count > max_retries

RetryLeft(retry_count) == retry_count < max_retries

\* await asyncio.sleep(1)
SleepGrowing(f) == [f EXCEPT !.sleeps = @ + 1, !.slept = @ + f.retry_count + 1]

Sleep(f) == [f EXCEPT !.sleeps = @ + 1, !.slept = @ + backoff_seconds]

\* a retry: retry_count += 1, then asyncio.sleep(1)
RetryUncounted(f) == Sleep(f)

Retry(f) == Sleep([f EXCEPT !.retry_count = @ + 1])

\* the handler of a non-HTTP exception in get_page_content
OnOtherErrorRaise(f) == [f EXCEPT !.pc = "raised"]

OnOtherError(f) == FetchReturn(f, None)

\* get_page_content: one pass of the while loop, from its test to the
\* return, or to the end of the sleep before the next pass
get_page_content(f, outcome) ==
    IF ~(f.retry_count <= max_retries) THEN FetchReturn(f, None)
    ELSE LET g == [f EXCEPT !.requests = @ + 1, !.last = outcome.kind] IN
         CASE outcome.kind = "ok" -> FetchReturn(g, Some(outcome.html))
           [] outcome.kind \in RetryableKinds ->
                IF RetryLeft(g.retry_count)
                THEN Retry(g)
                ELSE FetchReturn(g, None)
           [] outcome.kind = "other" -> OnOtherError(g)

\* the test that ends the retries in _extract_content_from_url
RetriesUsedUpLate(retry_count) == retry_count > summarizer_max_retries

RetriesUsedUp(retry_count) == retry_count >= summarizer_max_retries

\* _extract_content_from_url: one pass of the while loop, likewise; after
\* a response the cleaned text is returned
extract_content_from_url(f, outcome) ==
    IF ~(f.retry_count < summarizer_max_retries) THEN FetchReturn(f, None)
    ELSE LET g == [f EXCEPT !.requests = @ + 1, !.last = outcome.kind] IN
         CASE outcome.kind = "ok" ->
                FetchReturn(g, Some(clean_html(outcome.html)))
           [] outcome.kind \in RetryableKinds ->
                LET h == [g EXCEPT !.retry_count = @ + 1] IN
                IF RetriesUsedUp(h.retry_count)
                THEN FetchReturn(h, Some(IF outcome.kind = "status"
                                         THEN StatusErrorText ELSE RequestErrorText))
                ELSE Sleep(h)
           [] outcome.kind = "other" -> FetchReturn(g, None)

FetchStep(f, outcome) ==
    IF f.who = "search" THEN get_page_content(f, outcome)
    ELSE extract_content_from_url(f, outcome)

\* no request for a page sent yet
NoRequests == [total |-> 0, urls |-> {}]

\* no fetch in progress
FetchOff == fetch = FetchIdle /\ page_requests = NoRequests

\* no search in progress
SearchOff ==
    /\ search_pc = "off"
    /\ deep_search = TRUE
    /\ items = <<>>
    /\ formatted_results = <<>>
    /\ search_return = <<>>
    /\ num = 10

\* no enrichment by the summarizer in progress
SummOff ==
    /\ summ_pc = "off"
    /\ summ_results = <<>>
    /\ tasks = <<>>
    /\ summ_enriched = <<>>

\* no process_query call in progress
QueryOff ==
    /\ query_pc = "off"
    /\ query_analysis = EmptyDict
    /\ search_query = ""
    /\ max_results = 0
    /\ query_result = EmptyDict

\* no report synthesis in progress
ReportOff ==
    /\ report_pc = "off"
    /\ report_results = <<>>
    /\ url_map = EmptyDict
    /\ narrative = <<>>
    /\ report = <<>>
    /\ urls_in_report = <<>>
    /\ context = <<>>

(***************************************************************************)
(* Candidates and GoogleSearchTool._enrich_search_results                  *)
(***************************************************************************)
\* the result dict search() builds for an item
Candidate(link, short) ==
    [k \in {"title", "link", "short_link", "snippet"} |->
        CASE k = "title"      -> <<"title:" \o Flat(link)>>
          [] k = "link"       -> link
          [] k = "short_link" -> short
          [] k = "snippet"    -> <<"snippet:" \o Flat(link)>>]

\* the link of the candidate at position n of an enrichment input
LinkAt(n) == <<"H">> \o Repeat("a", n)

\* the lists handed to enrichment: n candidates, n up to MaxResults
EnrichInputs ==
    {[i \in 1..n |-> Candidate(LinkAt(i), shorten_locally(LinkAt(i)))] : n \in 0..MaxResults}


\* search_results[:n] and search_results[n:]
Take(s, n) == SubSeq(s, 1, Min(n, Len(s)))
Drop(s, n) == SubSeq(s, n + 1, Len(s))

EnrichOff ==
    /\ search_results = <<>>
    /\ enriched_results = <<>>
    /\ enrich_pc = "off"
    /\ fetched = <<>>

InitEnrich ==
    /\ ShortenerIdle
    /\ ExtractOff
    /\ SummOff
    /\ QueryOff
    /\ SearchOff
    /\ FetchOff
    /\ ReportOff
    /\ search_results \in EnrichInputs
    /\ enriched_results = <<>>
    /\ enrich_pc = "loop"
    /\ fetched = <<>>

\* where the enriched copy goes in enriched_results
PlaceFirst(results, r) == <<r>> \o results

Place(results, r) == Append(results, r)

\* the copy of a result with the fetched content added when there is some
EnrichedAlways(result, full_content) ==
    DictPut(result, "full_content",
            IF Truthy(full_content) THEN clean_html_content(full_content.text)
            ELSE <<>>)

Enriched(result, full_content) ==
    IF Truthy(full_content)
    THEN DictPut(result, "full_content", clean_html_content(full_content.text))
    ELSE result

\* the tail that is passed through without a fetch
RestAll(results) == results

Rest(results) ==
    IF Len(results) > max_urls_to_crawl THEN Drop(results, max_urls_to_crawl)
    ELSE <<>>

\* the for loop over search_results[:max_urls_to_crawl] has no candidate left
LoopOverAnyTime == TRUE

LoopOverAll == Len(enriched_results) = Len(search_results)

LoopOver == Len(enriched_results) = Len(Take(search_results, max_urls_to_crawl))

\* the loop reaches the next candidate: get_page_content(url) is called
EnrichFetch ==
    /\ enrich_pc = "loop"
    /\ fetch.pc = "idle"
    /\ ~LoopOver
    /\ fetch' = FetchStart("search", search_results[Len(enriched_results) + 1]["link"])
    /\ UNCHANGED <<summVars, queryVars, cleanVars, page_requests, shortVars,
                   enrichVars, reportVars, searchVars>>

\* the requests for pages sent so far, one more being sent for url
Requested(log, url) == [total |-> log.total + 1, urls |-> log.urls \cup {url}]

\* one attempt of the fetch in progress
FetchAttempt(outcome) ==
    /\ fetch.pc = "running"
    /\ fetch' = FetchStep(fetch, outcome)
    /\ page_requests' = IF fetch'.requests > fetch.requests
                        THEN Requested(page_requests, fetch.url)
                        ELSE page_requests
    /\ UNCHANGED <<summVars, queryVars, cleanVars, shortVars, enrichVars, reportVars,
                   searchVars>>

\* get_page_content has returned: the body of the loop after the await
EnrichTake ==
    /\ enrich_pc = "loop"
    /\ fetch.pc = "returned"
    /\ enriched_results' =
           Place(enriched_results,
                 Enriched(search_results[Len(enriched_results) + 1], fetch.result))
    /\ fetched' = Append(fetched, fetch.result)
    /\ fetch' = FetchIdle
    /\ UNCHANGED <<summVars, queryVars, cleanVars, page_requests,
                   shortVars, search_results, enrich_pc, reportVars, searchVars>>

\* the loop is over: the remaining results are appended and the list returned
EnrichReturn ==
    /\ enrich_pc = "loop"
    /\ fetch.pc = "idle"
    /\ LoopOver
    /\ enriched_results' = enriched_results \o Rest(search_results)
    /\ enrich_pc' = "done"
    /\ UNCHANGED <<summVars, queryVars, cleanVars, page_requests,
                   shortVars, fetch, search_results, fetched, reportVars, searchVars>>

NextEnrich ==
    \/ EnrichFetch
    \/ \E outcome \in FetchOutcomes : FetchAttempt(outcome)
    \/ EnrichTake
    \/ EnrichReturn

\* GoogleSearchTool._enrich_search_results on a list of search results
SpecEnrich == InitEnrich /\ [][NextEnrich]_vars

\* one call of either fetcher
FetchUrls == ShortenUrls

InitFetch ==
    /\ ShortenerIdle
    /\ ExtractOff
    /\ SummOff
    /\ QueryOff
    /\ SearchOff
    /\ EnrichOff
    /\ ReportOff
    /\ \E who \in {"search", "summarizer"}, url \in FetchUrls :
           fetch = FetchStart(who, url)
    /\ page_requests = NoRequests

NextFetch == \E outcome \in FetchOutcomes : FetchAttempt(outcome)

SpecFetch == InitFetch /\ [][NextFetch]_vars

(***************************************************************************)
(* ContentSummarizer._enrich_search_results                                *)
(***************************************************************************)
\* the lists handed to the summarizer's enrichment
SummInputs ==
    {[i \in 1..n |-> Candidate(LinkAt(i), shorten_locally(LinkAt(i)))] :
        n \in 0..MaxSummResults}

\* the coroutines built for asyncio.gather: one _extract_content_from_url
\* call per result of search_results[:self.max_urls_to_crawl]
GatherTasks(results) ==
    [i \in 1..Len(Take(results, summarizer_max_urls_to_crawl)) |->
        FetchStart("summarizer", results[i]["link"])]

\* the state at the await of asyncio.gather
InitSumm ==
    /\ ShortenerIdle
    /\ ExtractOff
    /\ QueryOff
    /\ SearchOff
    /\ FetchOff
    /\ EnrichOff
    /\ ReportOff
    /\ summ_pc = "gather"
    /\ summ_results \in SummInputs
    /\ tasks = GatherTasks(summ_results)
    /\ summ_enriched = <<>>

\* one pass of the retry loop of one of the gathered calls
SummAttempt(i, outcome) ==
    /\ summ_pc = "gather"
    /\ tasks[i].pc = "running"
    /\ tasks' = [tasks EXCEPT ![i] = FetchStep(@, outcome)]
    /\ UNCHANGED <<shortVars, fetch, enrichVars, reportVars, searchVars, queryVars,
                   cleanVars, page_requests,
                   summ_pc, summ_results, summ_enriched>>

\* the copy of a result with contents[i] added when it is truthy
SummEnriched(r, content) ==
    IF Truthy(content) THEN DictPut(r, "full_content", content.text) ELSE r

\* the results beyond self.max_urls_to_crawl
SummRest(results) ==
    IF Len(results) > summarizer_max_urls_to_crawl
    THEN Drop(results, summarizer_max_urls_to_crawl)
    ELSE <<>>

\* every gathered call has returned: the enriched list is built and returned
SummReturn ==
    /\ summ_pc = "gather"
    /\ \A i \in 1..Len(tasks) : tasks[i].pc = "returned"
    /\ summ_enriched' =
           [i \in 1..Len(tasks) |-> SummEnriched(summ_results[i], tasks[i].result)]
               \o SummRest(summ_results)
    /\ summ_pc' = "done"
    /\ UNCHANGED <<shortVars, fetch, enrichVars, reportVars, searchVars, queryVars,
                   cleanVars, page_requests,
                   summ_results, tasks>>

NextSumm ==
    \/ \E i \in 1..Len(tasks), outcome \in FetchOutcomes : SummAttempt(i, outcome)
    \/ SummReturn

\* ContentSummarizer._enrich_search_results on a list of search results
SpecSumm == InitSumm /\ [][NextSumm]_vars

(***************************************************************************)
(* GoogleSearchTool.search                                                 *)
(***************************************************************************)
\* the links of the provider's items
ItemLinks == {<<"H", "a">>, <<"H", "a", "b">>}

\* an item of the provider's response: with or without a link field, its
\* pagemap metadata well formed ("ok") or with an empty metatags list ("bad")
ProviderItems ==
    {[meta |-> m] : m \in {"ok", "bad"}}
        \cup {[link |-> l, meta |-> m] : l \in ItemLinks, m \in {"ok", "bad"}}

\* item.get("link", "")
ItemLink(item) == IF "link" \in DOMAIN item THEN item["link"] ELSE <<>>

\* how the request to the provider ends:
\*   "http_error"  an httpx.HTTPError (transport error, status 4xx or 5xx)
\*   "bad_json"    a body that response.json() cannot parse
\*   "no_items"    a response without an items field
\*   "items"       a response with items
ProviderOutcomes == {"http_error", "bad_json", "no_items", "items"}

\* the num_results argument of search(): the default 10 and what callers pass
NumResults == {0, 3, 5, 10, 11}

\* the cap sent to the provider: min(num_results, 10)
SearchCap(num_results) == Min(num_results, 10)

InitSearch ==
    /\ ShortenerIdle
    /\ ExtractOff
    /\ SummOff
    /\ QueryOff
    /\ FetchOff
    /\ EnrichOff
    /\ ReportOff
    /\ search_pc = "request"
    /\ deep_search \in BOOLEAN
    /\ items = <<>>
    /\ formatted_results = <<>>
    /\ search_return = <<>>
    /\ \E num_results \in NumResults : num = SearchCap(num_results)

\* the provider does not answer with items: search returns [] or raises
SearchNoItems(outcome) ==
    /\ search_pc = "request"
    /\ outcome # "items"
    /\ search_pc' = IF outcome = "bad_json" THEN "raised" ELSE "returned"
    /\ search_return' = <<>>
    /\ UNCHANGED <<summVars, queryVars, cleanVars, page_requests,
                   shortVars, fetch, enrichVars, reportVars, deep_search, num, items,
                   formatted_results>>

\* the provider answers with items
SearchItems(its) ==
    /\ search_pc = "request"
    /\ items' = its
    /\ search_pc' = "items"
    /\ UNCHANGED <<summVars, queryVars, cleanVars, page_requests, shortVars, fetch,
                   enrichVars, reportVars, deep_search, num,
                   formatted_results, search_return>>

\* one turn of the loop over the items: the link is shortened and the result
\* dict built; reading the published date of malformed metadata raises
SearchItem(outcome) ==
    /\ search_pc = "items"
    /\ Len(formatted_results) < Len(items)
    /\ LET item == items[Len(formatted_results) + 1]
           original_url == ItemLink(item)
           sh == shorten(short_urls_cache["search"], original_url, outcome)
       IN /\ short_urls_cache' = [short_urls_cache EXCEPT !["search"] = sh.cache]
          /\ IF item["meta"] = "bad"
             THEN /\ search_pc' = "raised"
                  /\ UNCHANGED formatted_results
             ELSE /\ formatted_results' =
                         Append(formatted_results, Candidate(original_url, sh.ret))
                  /\ UNCHANGED search_pc
    /\ UNCHANGED <<summVars, queryVars, cleanVars, page_requests,
                   call, firstReturn, fetch, enrichVars, reportVars, deep_search, num, items,
                   search_return>>

\* the loop is over and deep_search is set: _enrich_search_results is called
SearchEnrich ==
    /\ search_pc = "items"
    /\ Len(formatted_results) = Len(items)
    /\ deep_search
    /\ search_pc' = "enrich"
    /\ search_results' = formatted_results
    /\ enriched_results' = <<>>
    /\ fetched' = <<>>
    /\ enrich_pc' = "loop"
    /\ UNCHANGED <<summVars, queryVars, cleanVars, page_requests,
                   shortVars, fetch, reportVars, deep_search, num, items, formatted_results,
                   search_return>>

\* search returns: formatted_results, or what _enrich_search_results returned
SearchReturn ==
    /\ \/ /\ search_pc = "items"
          /\ Len(formatted_results) = Len(items)
          /\ ~deep_search
          /\ search_return' = formatted_results
       \/ /\ search_pc = "enrich"
          /\ enrich_pc = "done"
          /\ search_return' = enriched_results
    /\ search_pc' = "returned"
    /\ UNCHANGED <<summVars, queryVars, cleanVars, page_requests,
                   shortVars, fetch, enrichVars, reportVars, deep_search, num, items,
                   formatted_results>>

\* the responses with items (none unless a response is awaited)
ItemLists == IF search_pc = "request" THEN ListsUpTo(ProviderItems, MaxItems) ELSE {}

NextSearch ==
    \/ \E outcome \in ProviderOutcomes : SearchNoItems(outcome)
    \/ \E its \in ItemLists : SearchItems(its)
    \/ \E outcome \in ExtOutcomes : SearchItem(outcome)
    \/ SearchEnrich
    \/ NextEnrich
    \/ SearchReturn

\* one call of search()
SpecSearch == InitSearch /\ [][NextSearch]_vars

(***************************************************************************)
(* LLMAgent._generate_comprehensive_report                                 *)
(***************************************************************************)
\* the links of the candidates handed to report synthesis: two pages, the
\* URL of one a prefix of the URL of the other
ReportLinks == {<<"H", "a">>, <<"H", "a", "b">>}

\* a candidate as search() returns it: its short_link is what the search
\* tool's shortener answered, the external alias or the local form
ReportCandidates ==
    UNION {{Candidate(l, TinyUrl(l)), Candidate(l, shorten_locally(l))} : l \in ReportLinks}

Links(results) == {results[i]["link"] : i \in 1..Len(results)}

\* the lists of candidates: not empty, no link twice
ReportInputs ==
    {l \in ListsUpTo(ReportCandidates, MaxCands) :
        l # <<>> /\ Cardinality(Links(l)) = Len(l)}

\* what a narrative is made of: single characters and the candidates' URLs
Pieces(results) ==
    {<<" ">>, <<".">>}
        \cup {results[i]["link"] : i \in 1..Len(results)}
        \cup {results[i]["short_link"] : i \in 1..Len(results)}

\* the texts the completion provider may answer
Narratives(results) ==
    {Concat(ps) : ps \in ListsUpTo(Pieces(results), MaxPieces)}

\* the answers possible in the current state (none unless a call is awaited)
Answers == IF report_pc = "completion" THEN Narratives(report_results) ELSE {}

RECURSIVE BuildUrlMap(_, _, _)
\* the loop that fills url_map, from result i on. A result without a short
\* link would be given one by the agent's shortener; every result of
\* search() carries one, so that branch is never taken on the inputs drawn
\* here and the local form stands in for the shortener's answer
BuildUrlMap(results, i, m) ==
    IF i > Len(results) THEN m
    ELSE LET r == results[i]
             short_url == IF "short_link" \in DOMAIN r /\ r["short_link"] # <<>>
                          THEN r["short_link"] ELSE shorten_locally(r["link"])
         IN BuildUrlMap(results, i + 1, DictPut(m, r["link"], short_url))

Values(d) == {d[k] : k \in DOMAIN d}

\* result['short_link'] = short_url, done for a result without a short link:
\* the candidate itself is written, not a copy
EnsureShortLinkRewrites(r) == DictPut(r, "short_link", shorten_locally(r["link"]))

EnsureShortLink(r) ==
    IF "short_link" \in DOMAIN r /\ r["short_link"] # <<>> THEN r
    ELSE DictPut(r, "short_link", shorten_locally(r["link"]))

RECURSIVE JoinWith(_, _)
\* sep.join(texts)
JoinWith(texts, sep) ==
    IF texts = <<>> THEN <<>>
    ELSE IF Len(texts) = 1 THEN texts[1]
    ELSE texts[1] \o sep \o JoinWith(Tail(texts), sep)

\* the text returned when the completion call fails: a line per candidate of
\* search_results[:3], with its short link
FallbackReportAll(results) ==
    <<"FALLBACK_NOTICE", "\n", "\n">> \o
    JoinWith([i \in 1..Len(results) |->
                 <<"-", " ">> \o results[i]["title"] \o <<":", " ">> \o
                 results[i]["link"]],
             <<"\n", "\n">>)

FallbackReport(results) ==
    <<"FALLBACK_NOTICE", "\n", "\n">> \o
    JoinWith([i \in 1..Min(3, Len(results)) |->
                 <<"-", " ">> \o results[i]["title"] \o <<":", " ">> \o
                 (IF "short_link" \in DOMAIN results[i]
                  THEN results[i]["short_link"] ELSE results[i]["link"])],
             <<"\n", "\n">>)

\* result['full_content'][:1000]
excerpt_length == 1000

\* the excerpt of a content that goes into the context
Excerpt(text) ==
    IF Len(text) > excerpt_length THEN SubSeq(text, 1, excerpt_length) \o <<"...">>
    ELSE text

\* the block of the context made for a result: its short and original
\* address, then its fetched content when it has one, else its snippet
ContextBlockOfContent(r, short_url) ==
    [url |-> short_url, original |-> r["link"], field |-> "content",
     text |-> IF "full_content" \in DOMAIN r THEN r["full_content"] ELSE <<>>]

ContextBlock(r, short_url) ==
    IF "full_content" \in DOMAIN r /\ r["full_content"] # <<>>
    THEN [url |-> short_url, original |-> r["link"], field |-> "content",
          text |-> Excerpt(r["full_content"])]
    ELSE [url |-> short_url, original |-> r["link"], field |-> "snippet",
          text |-> r["snippet"]]

InitReport ==
    /\ ShortenerIdle
    /\ ExtractOff
    /\ SummOff
    /\ QueryOff
    /\ SearchOff
    /\ FetchOff
    /\ EnrichOff
    /\ report_pc = "start"
    /\ report_results \in ReportInputs
    /\ url_map = EmptyDict
    /\ narrative = <<>>
    /\ report = <<>>
    /\ urls_in_report = <<>>
    /\ context = <<>>

\* the function up to the await of the completion call: url_map is built,
\* a result without a short link is given one, the context is written
ReportBegin ==
    /\ report_pc = "start"
    /\ url_map' = BuildUrlMap(report_results, 1, EmptyDict)
    /\ report_results' = [i \in 1..Len(report_results) |->
                              EnsureShortLink(report_results[i])]
    /\ context' = [i \in 1..Len(report_results) |->
                       ContextBlock(report_results[i], url_map'[report_results[i]["link"]])]
    /\ report_pc' = "completion"
    /\ UNCHANGED <<summVars, queryVars, cleanVars, page_requests, shortVars, fetch,
                   enrichVars,
                   searchVars, narrative, report, urls_in_report>>

\* the completion call answers text: the URLs in it are collected
CompletionAnswers(text) ==
    /\ report_pc = "completion"
    /\ narrative' = text
    /\ report' = text
    /\ urls_in_report' = FindUrls(text)
    /\ report_pc' = "pass"
    /\ UNCHANGED <<summVars, queryVars, cleanVars, page_requests, shortVars, fetch,
                   enrichVars, searchVars,
                   report_results, context, url_map>>

\* the completion call raises, or answers without content so that re.findall
\* raises: the except clause returns the fallback text
CompletionFails ==
    /\ report_pc = "completion"
    /\ report' = FallbackReport(report_results)
    /\ report_pc' = "fallback"
    /\ UNCHANGED <<summVars, queryVars, cleanVars, page_requests, shortVars, fetch,
                   enrichVars, searchVars,
                   report_results, context, url_map, narrative, urls_in_report>>

\* the replacement the pass makes for a URL that is a key of url_map
ReplaceFirstOnly(text, old, new) ==
    IF IsSubstring(old, text)
    THEN LET i == CHOOSE j \in 1..Len(text) :
                     /\ j + Len(old) - 1 <= Len(text)
                     /\ SubSeq(text, j, j + Len(old) - 1) = old
                     /\ \A k \in 1..(j - 1) : SubSeq(text, k, k + Len(old) - 1) # old
         IN SubSeq(text, 1, i - 1) \o new \o SubSeq(text, i + Len(old), Len(text))
    ELSE text

ReplaceMapped(text, old, new) == Replace(text, old, new)

\* one turn of the loop of the consistency pass, for the next URL found
PassStep(outcome) ==
    /\ report_pc = "pass"
    /\ urls_in_report # <<>>
    /\ LET url == Head(urls_in_report) IN
       /\ urls_in_report' = Tail(urls_in_report)
       /\ IF url \in DOMAIN url_map
          THEN /\ report' = ReplaceMapped(report, url, url_map[url])
               /\ UNCHANGED short_urls_cache
          ELSE IF ~(\E short_url \in Values(url_map) : short_url = url)
          THEN LET sh == shorten(short_urls_cache["agent"], url, outcome) IN
               /\ short_urls_cache' = [short_urls_cache EXCEPT !["agent"] = sh.cache]
               /\ report' = Replace(report, url, sh.ret)
          ELSE UNCHANGED <<short_urls_cache, report>>
    /\ UNCHANGED <<summVars, queryVars, cleanVars, page_requests, call, firstReturn,
                   fetch, enrichVars, searchVars,
                   report_pc, report_results, context, url_map, narrative>>

\* the loop is over: the report is returned
ReportReturn ==
    /\ report_pc = "pass"
    /\ urls_in_report = <<>>
    /\ report_pc' = "returned"
    /\ UNCHANGED <<summVars, queryVars, cleanVars, page_requests, shortVars, fetch,
                   enrichVars, searchVars,
                   report_results, context, url_map, narrative, report, urls_in_report>>

NextReport ==
    \/ ReportBegin
    \/ \E text \in Answers : CompletionAnswers(text)
    \/ CompletionFails
    \/ \E outcome \in ExtOutcomes : PassStep(outcome)
    \/ ReportReturn

\* one call of _generate_comprehensive_report on the candidates of a search
SpecReport == InitReport /\ [][NextReport]_vars

\* longer lists of candidates, shorter answers of the completion provider
WideLinks == {LinkAt(n) : n \in 1..MaxWide}

WideCandidates ==
    UNION {{Candidate(l, TinyUrl(l)), Candidate(l, shorten_locally(l))} : l \in WideLinks}

WideInputs ==
    {l \in ListsUpTo(WideCandidates, MaxWide) :
        l # <<>> /\ Cardinality(Links(l)) = Len(l)}

\* the answers of at most one piece possible in the current state
ShortAnswers ==
    IF report_pc = "completion"
    THEN {Concat(ps) : ps \in ListsUpTo(Pieces(report_results), 1)}
    ELSE {}

InitReportWide ==
    /\ ShortenerIdle
    /\ ExtractOff
    /\ SummOff
    /\ QueryOff
    /\ SearchOff
    /\ FetchOff
    /\ EnrichOff
    /\ report_pc = "start"
    /\ report_results \in WideInputs
    /\ url_map = EmptyDict
    /\ narrative = <<>>
    /\ report = <<>>
    /\ urls_in_report = <<>>
    /\ context = <<>>

NextReportWide ==
    \/ ReportBegin
    \/ \E text \in ShortAnswers : CompletionAnswers(text)
    \/ CompletionFails
    \/ \E outcome \in ExtOutcomes : PassStep(outcome)
    \/ ReportReturn

\* one call of _generate_comprehensive_report on up to MaxWide candidates
SpecReportWide == InitReportWide /\ [][NextReportWide]_vars

(***************************************************************************)
(* LLMAgent.process_query                                                  *)
(***************************************************************************)
\* the user_query argument
user_query == "q"

\* the result counts the completion provider may suggest
SuggestedCounts == {0, 3, 11}

\* a parsed payload of the analysis: topics, with or without a search_query,
\* with or without a max_results
AnalysisPayload(with_query, counts) ==
    [k \in {"topics"} \cup (IF with_query THEN {"search_query"} ELSE {})
                      \cup (IF counts # {} THEN {"max_results"} ELSE {}) |->
        CASE k = "topics"       -> <<"topic">>
          [] k = "search_query" -> "kw"
          [] k = "max_results"  -> CHOOSE n \in counts : TRUE]

AnalysisPayloads ==
    {AnalysisPayload(q, c) : q \in BOOLEAN, c \in {{}} \cup {{n} : n \in SuggestedCounts}}

\* how the completion call of _analyze_query ends:
\*   "error"     the call raises
\*   "non_json"  the content is not JSON: json.loads raises
\*   "json"      the content parses to payload
AnalysisOutcomes ==
    {[kind |-> k, payload |-> EmptyDict] : k \in {"error", "non_json"}}
        \cup {[kind |-> "json", payload |-> p] : p \in AnalysisPayloads}

\* _analyze_query: the parsed payload, or the default built from the query
AnalyzeKeepsPayload(query, outcome) == outcome.payload

analyze_query(query, outcome) ==
    IF outcome.kind = "json" THEN outcome.payload
    ELSE [k \in {"search_query", "topics", "max_results"} |->
             CASE k = "search_query" -> query
               [] k = "topics"       -> <<query>>
               [] k = "max_results"  -> 5]

\* query_analysis.get("max_results", 5)
MaxResultsOf(analysis) ==
    IF "max_results" \in DOMAIN analysis THEN analysis["max_results"] ELSE 5

\* the dict returned when the search found nothing
NoResultsAlways(sq, results, text) ==
    [k \in {"type", "query", "search_query", "answer", "used_tools"} |->
        CASE k = "type"         -> "no_results"
          [] k = "query"        -> user_query
          [] k = "search_query" -> sq
          [] k = "answer"       -> <<"NO_RESULTS_NOTICE", sq>>
          [] k = "used_tools"   -> <<"search">>]

NoResults(sq) == NoResultsAlways(sq, <<>>, <<>>)

\* the dict returned with a report
SearchAndReport(sq, results, text) ==
    [k \in {"type", "query", "search_query", "answer", "raw_results", "used_tools"} |->
        CASE k = "type"         -> "search_and_report"
          [] k = "query"        -> user_query
          [] k = "search_query" -> sq
          [] k = "answer"       -> text
          [] k = "raw_results"  -> results
          [] k = "used_tools"   -> <<"search", "analyze">>]

\* the state at the await of _analyze_query
InitQuery ==
    /\ ShortenerIdle
    /\ ExtractOff
    /\ SummOff
    /\ SearchOff
    /\ FetchOff
    /\ EnrichOff
    /\ ReportOff
    /\ query_pc = "analyze"
    /\ query_analysis = EmptyDict
    /\ search_query = ""
    /\ max_results = 0
    /\ query_result = EmptyDict

\* _analyze_query returns; search_query and max_results are read from what
\* it returned (a missing search_query raises KeyError) and search() is
\* called, which runs up to its request to the provider
QueryAnalyzed(outcome) ==
    /\ query_pc = "analyze"
    /\ LET analysis == analyze_query(user_query, outcome) IN
       /\ query_analysis' = analysis
       /\ IF "search_query" \notin DOMAIN analysis
          THEN /\ query_pc' = "raised"
               /\ UNCHANGED <<search_query, max_results, searchVars>>
          ELSE /\ query_pc' = "search"
               /\ search_query' = analysis["search_query"]
               /\ max_results' = MaxResultsOf(analysis)
               /\ search_pc' = "request"
               /\ deep_search' = TRUE
               /\ num' = SearchCap(MaxResultsOf(analysis))
               /\ UNCHANGED <<items, formatted_results, search_return>>
    /\ UNCHANGED <<shortVars, fetch, enrichVars, reportVars, summVars, cleanVars,
                   page_requests, query_result>>

\* if not search_results
NoCandidatesNever(results) == FALSE

NoCandidates(results) == results = <<>>

\* search() is over: its exception goes on, or no_results is returned, or
\* _generate_comprehensive_report is called
QuerySearchDone ==
    /\ query_pc = "search"
    /\ search_pc \in {"returned", "raised"}
    /\ IF search_pc = "raised"
       THEN /\ query_pc' = "raised"
            /\ UNCHANGED <<query_result, reportVars>>
       ELSE IF NoCandidates(search_return)
       THEN /\ query_pc' = "returned"
            /\ query_result' = NoResults(search_query)
            /\ UNCHANGED reportVars
       ELSE /\ query_pc' = "report"
            /\ report_pc' = "start"
            /\ report_results' = search_return
            /\ UNCHANGED <<query_result, url_map, narrative, report, urls_in_report,
                           context>>
    /\ UNCHANGED <<shortVars, fetch, enrichVars, searchVars, summVars, cleanVars,
                   page_requests, query_analysis,
                   search_query, max_results>>

\* _generate_comprehensive_report has returned: the result is returned
QueryReportDone ==
    /\ query_pc = "report"
    /\ report_pc \in {"returned", "fallback"}
    /\ query_pc' = "returned"
    /\ query_result' = SearchAndReport(search_query, report_results, report)
    /\ UNCHANGED <<shortVars, fetch, enrichVars, searchVars, summVars, cleanVars,
                   page_requests, reportVars,
                   query_analysis, search_query, max_results>>

\* the responses with items within process_query
QueryItemLists ==
    IF search_pc = "request" THEN ListsUpTo(ProviderItems, MaxQueryItems) ELSE {}

NextQuery ==
    \/ \E outcome \in AnalysisOutcomes : QueryAnalyzed(outcome)
    \/ \E outcome \in ProviderOutcomes : SearchNoItems(outcome)
    \/ \E its \in QueryItemLists : SearchItems(its)
    \/ \E outcome \in ExtOutcomes : SearchItem(outcome)
    \/ SearchEnrich
    \/ NextEnrich
    \/ SearchReturn
    \/ QuerySearchDone
    \/ NextReportWide
    \/ QueryReportDone

\* one call of process_query
SpecQuery == InitQuery /\ [][NextQuery]_vars

(***************************************************************************)
(* Runs to their end: one call of process_query, or one call of the        *)
(* summarizer's enrichment. Every step is the return of an awaited call    *)
(* (provider, shortener, page fetch, sleep); each of them returns or times  *)
(* out, and the event loop then resumes the coroutine, so no run stops      *)
(* while a step of it is possible.                                          *)
(***************************************************************************)

InitRuns == InitQuery \/ InitSumm

NextRuns == NextQuery \/ NextSumm

SpecRunsFair == InitRuns /\ [][NextRuns]_vars /\ WF_vars(NextRuns)

(***************************************************************************)
(* The two extractors, each applied to one page                            *)
(***************************************************************************)

InitExtract ==
    /\ ShortenerIdle
    /\ page \in Pages
    /\ extracted = NotExtracted
    /\ SummOff
    /\ QueryOff
    /\ SearchOff
    /\ FetchOff
    /\ EnrichOff
    /\ ReportOff

CleanHtmlContent ==
    /\ extracted = NotExtracted
    /\ extracted' = search_clean(page)
    /\ UNCHANGED <<page, page_requests, shortVars, fetch, enrichVars, reportVars,
                   searchVars, summVars, queryVars>>

CleanHtml ==
    /\ extracted = NotExtracted
    /\ extracted' = summarizer_clean(page)
    /\ UNCHANGED <<page, page_requests, shortVars, fetch, enrichVars, reportVars,
                   searchVars, summVars, queryVars>>

NextExtract == CleanHtmlContent \/ CleanHtml

SpecExtract == InitExtract /\ [][NextExtract]_vars

(***************************************************************************)
(* UrlShortener.shorten as interleaved calls                               *)
(***************************************************************************)

InitShortener ==
    /\ ShortenerIdle
    /\ ExtractOff
    /\ SummOff
    /\ QueryOff
    /\ SearchOff
    /\ FetchOff
    /\ EnrichOff
    /\ ReportOff

\* the history of returns, after shorten(u) on instance i returned v
Record(i, u, v) ==
    IF u \in DOMAIN firstReturn[i] THEN firstReturn
    ELSE [firstReturn EXCEPT ![i] = DictPut(@, u, v)]

\* shorten(url) up to its first await: a hit returns the cached value, a
\* miss sends the request to the external API
ShortenBegin(t, i, url) ==
    /\ call[t].pc = "idle"
    /\ LET after == url \in DOMAIN firstReturn[i] IN
       IF CacheHit(short_urls_cache[i], url)
       THEN /\ call' = [call EXCEPT ![t] = [pc |-> "returned", inst |-> i, url |-> url,
                                            ret |-> short_urls_cache[i][url],
                                            io |-> FALSE, after |-> after,
                                            outcome |-> "none"]]
            /\ firstReturn' = Record(i, url, short_urls_cache[i][url])
            /\ UNCHANGED <<summVars, queryVars, cleanVars, page_requests,
                           short_urls_cache, fetch, enrichVars, reportVars, searchVars>>
       ELSE IF use_external_api[i]
       THEN /\ call' = [call EXCEPT ![t] = [pc |-> "external", inst |-> i, url |-> url,
                                            ret |-> <<>>, io |-> TRUE, after |-> after,
                                            outcome |-> "none"]]
            /\ UNCHANGED <<summVars, queryVars, cleanVars, page_requests,
                           short_urls_cache, firstReturn, fetch, enrichVars, reportVars,
                           searchVars>>
       ELSE /\ short_urls_cache' = [short_urls_cache EXCEPT
                                      ![i] = DictPut(@, url, shorten_locally(url))]
            /\ UNCHANGED <<summVars, queryVars, cleanVars, page_requests, fetch,
                           enrichVars, reportVars, searchVars>>
            /\ call' = [call EXCEPT ![t] = [pc |-> "returned", inst |-> i, url |-> url,
                                            ret |-> shorten_locally(url),
                                            io |-> FALSE, after |-> after,
                                            outcome |-> "none"]]
            /\ firstReturn' = Record(i, url, shorten_locally(url))

\* shorten(url) from the return of the external call: store and return
ShortenResume(t, outcome) ==
    /\ call[t].pc = "external"
    /\ UNCHANGED <<summVars, queryVars, cleanVars, page_requests, fetch, enrichVars,
                   reportVars, searchVars>>
    /\ LET c   == call[t]
           ext == shorten_with_external_api(c.url, outcome)
           st  == ShortenStore(short_urls_cache[c.inst], c.url, ext.value)
       IN IF ext.raised
          THEN /\ call' = [call EXCEPT ![t].pc = "raised", ![t].outcome = outcome]
               /\ UNCHANGED <<short_urls_cache, firstReturn>>
          ELSE /\ short_urls_cache' = [short_urls_cache EXCEPT ![c.inst] = st.cache]
               /\ call' = [call EXCEPT ![t].pc = "returned", ![t].ret = st.ret,
                                       ![t].outcome = outcome]
               /\ firstReturn' = Record(c.inst, c.url, st.ret)

\* the caller takes the value; the task is free for its next call
ShortenDone(t) ==
    /\ call[t].pc = "returned"
    /\ call' = [call EXCEPT ![t] = IdleCall]
    /\ UNCHANGED <<summVars, queryVars, cleanVars, page_requests,
                   short_urls_cache, firstReturn, fetch, enrichVars, reportVars,
                   searchVars>>

ShortenerNext(T, I) ==
    \/ \E t \in T, i \in I, url \in ShortenUrls : ShortenBegin(t, i, url)
    \/ \E t \in T, outcome \in ExtOutcomes : ShortenResume(t, outcome)
    \/ \E t \in T : ShortenDone(t)

NextShortenerSeq == ShortenerNext({1}, Insts)
NextShortener == ShortenerNext(Tasks, {"search"})

\* one caller: every shorten() call returns before the next one starts
SpecShortenerSeq == InitShortener /\ [][NextShortenerSeq]_vars
\* callers of the search tool's shortener interleaving at the await of the
\* external request
SpecShortener == InitShortener /\ [][NextShortener]_vars

(***************************************************************************)
(* Claims about the URL identity cache                                     *)
(***************************************************************************)
ReturnedCalls == {t \in Tasks : call[t].pc = "returned"}
FailedOutcomes == {"empty", "status", "error"}

\* C3: in every sequence of shorten calls on one shortener instance, every
\* call shorten(U) returns the short URL the first shorten(U) returned, and a
\* call that starts after the first shorten(U) has returned sends no request
\* to the external shortening API.
C3_ShortenIdempotent ==
    \A t \in Tasks :
        /\ call[t].pc = "returned" =>
               call[t].ret = firstReturn[call[t].inst][call[t].url]
        /\ call[t].pc \in {"external", "returned", "raised"} /\ call[t].after =>
               ~call[t].io

\* a later shorten(U) has returned, served from the cache
C3_Witness ==
    \E t \in Tasks : /\ call[t].pc = "returned"
                     /\ call[t].after
                     /\ call[t].ret = TinyUrl(call[t].url)

\* C4: under any interleaving of shorten calls on the shared shortener, a
\* short value stored for a long URL is never replaced by a different value,
\* and all racing callers for the same long URL return equal short URLs.
C4_InsertIfAbsent ==
    /\ [](\A t1, t2 \in ReturnedCalls :
              call[t1].inst = call[t2].inst /\ call[t1].url = call[t2].url
                  => call[t1].ret = call[t2].ret)
    /\ [][\A i \in Insts : \A u \in DOMAIN short_urls_cache[i] :
              short_urls_cache'[i][u] = short_urls_cache[i][u]]_vars

\* C5: the Search Client and the Report Synthesizer obtain the same short
\* URL for the same long URL, whatever the external calls answered.
C5_OneCanonicalShort ==
    \A u \in DOMAIN firstReturn["search"] \cap DOMAIN firstReturn["agent"] :
        firstReturn["search"][u] = firstReturn["agent"][u]

\* C6: shorten never raises, and when the external call fails (exception,
\* status other than 200, empty body) the value returned and the value
\* cached are the local hash form of the long URL.
C6_ShortenNeverFails ==
    \A t \in Tasks :
        /\ call[t].pc # "raised"
        /\ call[t].pc = "returned" /\ call[t].outcome \in FailedOutcomes =>
               /\ call[t].ret = <<"H", "S", Md5Code(call[t].url)>>
               /\ call[t].url \in DOMAIN short_urls_cache[call[t].inst]
               /\ short_urls_cache[call[t].inst][call[t].url] = call[t].ret

\* a call has returned after the external request raised
C6_Witness ==
    \E t \in Tasks : call[t].pc = "returned" /\ call[t].outcome = "error"


(***************************************************************************)
(* Claims about the page fetchers and the enrichment stage                 *)
(***************************************************************************)
\* C8: one call of a page fetcher (get_page_content or
\* _extract_content_from_url) makes at most 3 HTTP requests over any mix of
\* retryable outcomes, and exactly 3 when every attempt ends in a retryable
\* outcome (a call whose last attempt was retryable had only such attempts).
C8_AtMostThreeRequests ==
    /\ fetch.requests <= 3
    /\ fetch.pc = "returned" /\ fetch.last \in RetryableKinds => fetch.requests = 3

\* a call has returned after three attempts that ended in a status error
C8_Witness ==
    fetch.pc = "returned" /\ fetch.last = "status" /\ fetch.requests = 3

\* C9 as claimed: get_page_content returns None only after all 3 attempts
\* have been made, and no exception escapes it.
C9_FailureOnlyAfterAllAttempts ==
    fetch.who = "search" =>
        /\ fetch.pc # "raised"
        /\ fetch.pc = "returned" /\ fetch.result = None => fetch.requests = 3

\* C9 as amended: get_page_content returns None only after all 3 attempts
\* have been made or right after an attempt that raised an exception other
\* than an httpx.HTTPError, and no exception escapes it.
C9_FailureAfterAllAttemptsOrOtherError ==
    fetch.who = "search" =>
        /\ fetch.pc # "raised"
        /\ fetch.pc = "returned" /\ fetch.result = None =>
               fetch.requests = 3 \/ fetch.last = "other"

\* get_page_content has returned None after its third attempt
C9_Witness ==
    /\ fetch.who = "search" /\ fetch.pc = "returned" /\ fetch.result = None
    /\ fetch.requests = 3 /\ fetch.last = "transport"

HasContent(c) == "full_content" \in DOMAIN c

\* C10: the list _enrich_search_results returns has the length of its input
\* and the same candidates in the same order; candidates beyond position
\* max_urls_to_crawl = 5 carry no full_content; a candidate among the first 5
\* whose fetch failed or returned an empty body carries no full_content.
C10_EnrichKeepsCandidates ==
    enrich_pc = "done" =>
        /\ Len(enriched_results) = Len(search_results)
        /\ \A i \in 1..Len(search_results) :
              /\ i <= Len(enriched_results)
              /\ DOMAIN enriched_results[i] \subseteq
                     DOMAIN search_results[i] \cup {"full_content"}
              /\ \A k \in DOMAIN search_results[i] :
                     /\ k \in DOMAIN enriched_results[i]
                     /\ enriched_results[i][k] = search_results[i][k]
              /\ i > 5 => ~HasContent(enriched_results[i])
              /\ i <= 5 /\ ~Truthy(fetched[i]) => ~HasContent(enriched_results[i])

\* six candidates enriched: the first fetch failed, the second returned an
\* empty body, the third a page
C10_Witness ==
    /\ enrich_pc = "done"
    /\ Len(search_results) = 6
    /\ fetched[1] = None
    /\ fetched[2] = Some(EmptyHtml)
    /\ HasContent(enriched_results[3])


(***************************************************************************)
(* Claims about the consistency pass of report synthesis                   *)
(***************************************************************************)
\* the long URLs with a short form: the keys of url_map and of the agent's
\* identity cache, with the short URL of each
IdentityKeys == DOMAIN url_map \cup DOMAIN short_urls_cache["agent"]
ShortOf(l) == IF l \in DOMAIN url_map THEN url_map[l] ELSE short_urls_cache["agent"][l]

\* C1: in a report returned on the success path, no substring equals a long
\* URL that is a key of the URL map or identity cache with a different short
\* value, whatever the candidates and the narrative (one long URL a prefix of
\* another, a long URL followed by punctuation).
C1_NoLongUrlInReport ==
    report_pc = "returned" =>
        \A l \in IdentityKeys : ShortOf(l) # l => ~IsSubstring(l, report)

\* C2: where the narrative holds a candidate's long URL (a run of text
\* between excluded characters that equals it), the returned report holds
\* that candidate's own short URL at that place, and the long URL occurs
\* nowhere in the report.
C2_LongUrlReplacedByOwnShort ==
    report_pc = "returned" =>
        \A k \in 1..Len(Words(narrative)) :
            LET w == Words(narrative)[k] IN
            w \in DOMAIN url_map =>
                /\ Len(Words(report)) = Len(Words(narrative))
                /\ Words(report)[k] = url_map[w]
                /\ ~IsSubstring(w, report)


(***************************************************************************)
(* Claims about the search client                                          *)
(***************************************************************************)
\* C7: every candidate in the list search() returns carries a short_link
\* that is not empty, whatever the provider answered and however the
\* shortening calls ended, also for an item without a link field.
C7_ShortLinkNeverEmpty ==
    search_pc = "returned" =>
        \A i \in 1..Len(search_return) :
            /\ "short_link" \in DOMAIN search_return[i]
            /\ search_return[i]["short_link"] # <<>>

\* search() has returned a candidate made from an item without a link
C7_Witness ==
    /\ search_pc = "returned"
    /\ \E i \in 1..Len(search_return) : search_return[i]["link"] = <<>>


(***************************************************************************)
(* Claims about the summarizer's enrichment                                *)
(***************************************************************************)
\* the gathered call i made all its attempts and each ended in an HTTP
\* status error or a request error
FetchUltimatelyFailed(i) ==
    /\ tasks[i].pc = "returned"
    /\ tasks[i].requests = summarizer_max_retries
    /\ tasks[i].last \in RetryableKinds

\* C11: in the list ContentSummarizer._enrich_search_results returns, a
\* candidate whose fetch ultimately failed (all 3 attempts ended in a status
\* error or a request error) is still there, at its position, and carries no
\* full_content.
C11_FailedFetchLeavesNoContent ==
    summ_pc = "done" =>
        /\ Len(summ_enriched) = Len(summ_results)
        /\ \A i \in 1..Len(tasks) :
               FetchUltimatelyFailed(i) =>
                   /\ summ_enriched[i]["link"] = summ_results[i]["link"]
                   /\ "full_content" \notin DOMAIN summ_enriched[i]


(***************************************************************************)
(* Claims about enrichment and errors in the search client                 *)
(***************************************************************************)
\* the get_page_content calls _enrich_search_results has made so far
FetchesLaunched == Len(enriched_results) + (IF fetch.pc = "idle" THEN 0 ELSE 1)

\* the get_page_content calls that have not returned
FetchesInFlight == IF fetch.pc = "running" THEN 1 ELSE 0

\* C12: in the query pipeline (search with deep_search) the fetches of the
\* first K candidates run concurrently: they are all launched before any of
\* them is awaited, so while the fetch of one candidate is between two
\* attempts (it has been through a retry sleep and has not finished) the fetch
\* of every candidate among the first K has been launched; and never more
\* than K fetches are in flight.
C12_FetchesRunConcurrently ==
    /\ FetchesInFlight <= max_urls_to_crawl
    /\ (search_pc = "enrich" /\ enrich_pc = "loop" /\ fetch.pc = "running"
            /\ fetch.sleeps > 0)
           => FetchesLaunched = Len(Take(search_results, max_urls_to_crawl))

\* C13: search() never raises, and it returns an empty list whenever the
\* provider gave it no items (no items field, transport error, error status,
\* unparsable body) or an item with malformed metadata.
C13_SearchReturnsEmptyOnError ==
    /\ search_pc # "raised"
    /\ (search_pc = "returned" /\ items = <<>>) => search_return = <<>>


(***************************************************************************)
(* Claims about the fallback report                                        *)
(***************************************************************************)
\* C16: when the completion call of report synthesis fails, the text
\* returned is not empty, the URLs in it are the short URLs of the first
\* min(3, n) candidates, in their order, each after the title of its
\* candidate, and the long URL of no candidate occurs in it.
C16_FallbackListsShortUrls ==
    report_pc = "fallback" =>
        LET shown == Min(3, Len(report_results)) IN
        /\ report # <<>>
        /\ FindUrls(report) = [i \in 1..shown |-> report_results[i]["short_link"]]
        /\ \A i \in 1..shown :
               IsSubstring(report_results[i]["title"] \o <<":", " ">>
                               \o report_results[i]["short_link"], report)
        /\ \A i \in 1..Len(report_results) :
               ~IsSubstring(report_results[i]["link"], report)

\* the fallback text has been returned for more than three candidates
C16_Witness ==
    /\ report_pc = "fallback"
    /\ Len(report_results) > 3
    /\ report # <<>>


(***************************************************************************)
(* Claims about process_query                                              *)
(***************************************************************************)
\* intent resolution is over and left a directive
Resolved == query_pc \in {"search", "report", "returned"}

\* C14: intent resolution never fails: whatever the completion call of
\* _analyze_query does (raises, answers text that is not JSON, answers JSON
\* without a search_query), process_query goes on with a search string and a
\* result count, which are the raw user query and 5 when the payload is
\* unusable.
C14_IntentResolutionNeverFails ==
    /\ ~(query_pc = "raised" /\ search_pc = "off")
    /\ Resolved => search_query # ""
    /\ (query_pc # "analyze" /\ "search_query" \notin DOMAIN query_analysis)
           => (Resolved /\ search_query = user_query /\ max_results = 5)

\* C15: the result count process_query passes to search(), and the cap
\* search() sends to the provider, are integers from 1 to 10.
C15_ResultCountInRange ==
    Resolved => (max_results \in 1..10 /\ num \in 1..10)

\* the stage of the run; a run that raised stays in the stage it was in
Stage ==
    CASE query_pc = "analyze" -> "ResolvingIntent"
      [] query_pc = "returned" ->
            IF query_result["type"] = "no_results" THEN "NoResults" ELSE "Done"
      [] query_pc = "report" -> "Synthesizing"
      [] query_pc = "search" \/ (query_pc = "raised" /\ search_pc # "off") ->
            IF enrich_pc = "off" THEN "Searching" ELSE "Enriching"
      [] query_pc = "raised" /\ search_pc = "off" -> "ResolvingIntent"
      [] OTHER -> "None"

\* the order of the stages
StageOrder ==
    {<<"ResolvingIntent", "Searching">>, <<"Searching", "NoResults">>,
     <<"Searching", "Enriching">>, <<"Enriching", "Synthesizing">>,
     <<"Synthesizing", "Done">>}

\* the search is not issued before intent resolution is over, and synthesis
\* is not started when the search returned nothing
StagesWait ==
    /\ search_pc # "off" => query_pc # "analyze"
    /\ report_pc # "off" => (search_pc = "returned" /\ search_return # <<>>)

\* C17 as stated: every run of process_query moves through the stages in the
\* order ResolvingIntent, Searching, then NoResults or Enriching,
\* Synthesizing, Done; the search is not issued before intent resolution is
\* over, synthesis is not started when the search returned no candidate, and
\* no stage is entered a second time or after NoResults or Done.
C17_StageOrder ==
    /\ []StagesWait
    /\ [][Stage' # Stage => <<Stage, Stage'>> \in StageOrder]_vars

\* C17 amended: as C17, but NoResults is also reached from Enriching: when
\* the provider answers with an empty list of items, search() runs its
\* enrichment on no candidate before process_query sees the empty result.
C17_StageOrderWithEmptyEnriching ==
    /\ []StagesWait
    /\ [][Stage' # Stage =>
             <<Stage, Stage'>> \in StageOrder \cup {<<"Enriching", "NoResults">>}]_vars

\* a run has gone through enrichment to NoResults
C17_Witness ==
    /\ Stage = "NoResults"
    /\ enrich_pc = "done"

\* C18: process_query returns type no_results exactly when the search
\* returned an empty list, and then the result holds the resolved search
\* query, used_tools [search] and no raw_results; otherwise it returns type
\* search_and_report with the report as answer, the search query, and the
\* list the search returned as raw_results.
C18_ResultShape ==
    query_pc = "returned" =>
        /\ query_result["type"] = "no_results" <=> search_return = <<>>
        /\ query_result["search_query"] = search_query
        /\ IF search_return = <<>>
           THEN /\ query_result["used_tools"] = <<"search">>
                /\ "raw_results" \notin DOMAIN query_result
           ELSE /\ query_result["type"] = "search_and_report"
                /\ query_result["answer"] = report
                /\ "raw_results" \in DOMAIN query_result
                /\ query_result["raw_results"] = search_return

\* process_query has returned a report for the candidates of a search
C18_Witness ==
    /\ query_pc = "returned"
    /\ search_return # <<>>
    /\ query_result["type"] = "search_and_report"

\* C19: a candidate whose page fetch failed on all 3 attempts with an error
\* status has no content fetched (get_page_content returned None), and still
\* process_query returns type search_and_report, with the candidate in
\* raw_results without full_content, and the block of the context made for
\* it holds its snippet.
C19_FailedFetchStillReported ==
    /\ (fetch.pc = "returned" /\ fetch.requests = max_retries + 1
            /\ fetch.last = "status") => fetch.result = None
    /\ (query_pc = "returned" /\ search_return # <<>>) =>
           /\ query_result["type"] = "search_and_report"
           /\ Len(query_result["raw_results"]) = Len(items)
           /\ \A i \in 1..Len(fetched) :
                  fetched[i] = None =>
                      /\ query_result["raw_results"][i]["link"] = ItemLink(items[i])
                      /\ "full_content" \notin DOMAIN query_result["raw_results"][i]
                      /\ context[i].field = "snippet"
                      /\ context[i].text = query_result["raw_results"][i]["snippet"]

\* process_query has returned a report although the fetch of the only
\* candidate gave up
C19_Witness ==
    /\ query_pc = "returned"
    /\ Len(fetched) = 1
    /\ fetched[1] = None
    /\ query_result["type"] = "search_and_report"
    /\ context[1].field = "snippet"

\* C20: process_query does not raise, whatever the search provider, the
\* completion provider, the shortening endpoint and the fetched pages do.
C20_QueryNeverRaises == query_pc # "raised"

\* the page an extractor has been applied to gives no content: the parser
\* failed on it, or it has no visible text at all
FailureCase == extracted # NotExtracted /\ (page.broken \/ page.text = 0)

\* C21: an extractor never raises, and on a page the parser fails on and on
\* a page without usable text it returns one and the same fixed string, the
\* content-unavailable sentinel.
C21_OneSentinelOnFailure ==
    /\ extracted.kind \in {"none", "text", "no_content", "error"}
    /\ FailureCase => extracted = NoContent(extracted.who)

\* the length n of the whitespace-collapsed main text the extractor cut
MainLength ==
    IF extracted.who = "search" THEN SearchMainContent(page).len
    ELSE SummMainContent(page).len

\* C22: in each extractor the truncation marker follows the returned text
\* if and only if the whitespace-collapsed main text is longer than
\* max_content_length; a text of exactly that length carries no marker.
C22_MarkerIffTruncated ==
    extracted.kind = "text" => (extracted.marker <=> MainLength > max_content_length)

\* the structural candidates of the extractor that ran, and those of them the
\* reference lets through
StructuralCandidates == Elements(page, extracted.who = "summarizer")
Qualifies(el) == el.len >= min_element_length
Qualifying == SelectSeq(StructuralCandidates, Qualifies)

\* C23: the text an extractor returns comes from the longest structural
\* candidate whose visible text is not shorter than min_element_length; when
\* no candidate qualifies it is the concatenation of the paragraphs, and when
\* there are no paragraphs the visible text of the whole page.
C23_BlockSelection ==
    extracted.kind = "text" =>
        IF Qualifying # <<>> THEN extracted.src = Longest(Qualifying).src
        ELSE IF page.paragraphs # <<>> THEN extracted.src = Src("paragraphs", 0)
        ELSE extracted.src = Src("page", 0)

\* C24: in both fetchers one sleep of backoff_seconds separates every two
\* consecutive attempts and none happens elsewhere: a fetch that goes on has
\* slept once after each request it sent, a fetch that has returned has not
\* slept after its last request, and every sleep lasts the same time.
C24_FixedSleepBetweenAttempts ==
    /\ fetch.slept = fetch.sleeps * backoff_seconds
    /\ fetch.pc = "running" => fetch.sleeps = fetch.requests
    /\ fetch.pc = "returned" =>
           /\ fetch.requests >= 1
           /\ fetch.sleeps = fetch.requests - 1

\* a fetch has returned after its last allowed attempt, having slept twice
C24_Witness ==
    /\ fetch.pc = "returned"
    /\ fetch.who = "search"
    /\ fetch.requests = max_retries + 1
    /\ fetch.sleeps = max_retries
    /\ fetch.slept = max_retries * backoff_seconds

\* search() has handed its results to process_query, or report synthesis
\* has started
PassedDownstream == search_pc = "returned" \/ report_pc # "off"

IsUrl(w) == Len(w) >= 2 /\ w[1] = "H"
IsForeignUrl(w) == IsUrl(w) /\ w \notin DOMAIN url_map /\ w \notin Values(url_map)

\* what the shortener may return for url
ShortForms(url) == {TinyUrl(url), shorten_locally(url)}

\* C26: in the returned report every URL of the narrative that is neither a
\* candidate's long URL nor a candidate's short URL stands replaced, at its
\* place, by the short URL the shortener returns for that very URL, and it
\* occurs nowhere in the report; also when one URL of the narrative is a
\* prefix of another.
C26_ForeignUrlsShortenedInPlace ==
    report_pc = "returned" =>
        \A k \in 1..Len(Words(narrative)) :
            LET w == Words(narrative)[k] IN
            IsForeignUrl(w) =>
                /\ Len(Words(report)) = Len(Words(narrative))
                /\ Words(report)[k] \in ShortForms(w)
                /\ ~IsSubstring(w, report)

IsPrefix(p, w) == Len(p) <= Len(w) /\ SubSeq(w, 1, Len(p)) = p

\* C28: where the narrative cites a candidate's short URL, whatever follows
\* it, the returned report holds that short URL at that place, and the pass
\* has not handed a URL that starts with it to the shortener.
C28_CitedShortUrlUntouched ==
    report_pc = "returned" =>
        \A sh \in Values(url_map) :
            /\ \A k \in 1..Len(Words(narrative)) :
                   IsPrefix(sh, Words(narrative)[k]) =>
                       /\ Len(Words(report)) = Len(Words(narrative))
                       /\ IsPrefix(sh, Words(report)[k])
            /\ \A u \in DOMAIN short_urls_cache["agent"] : ~IsPrefix(sh, u)

CandidateFields == {"title", "link", "short_link", "snippet", "full_content"}

\* the fields of candidate r that report synthesis may read, as a function
FieldsOf(r) == [k \in DOMAIN r \cap CandidateFields |-> r[k]]

\* C27: report synthesis leaves the candidates as search() returned them, on
\* the success path and on the fallback path: title, link, short_link,
\* snippet and full_content of each are what they were when the call began,
\* in the list the synthesis holds and in the raw_results process_query
\* returns; full_content is only ever what enrichment put there.
C27_CandidatesUnchangedByReport ==
    /\ report_pc # "off" =>
           /\ Len(report_results) = Len(search_return)
           /\ \A i \in 1..Len(report_results) :
                  /\ FieldsOf(report_results[i]) = FieldsOf(search_return[i])
                  /\ report_results[i] =
                         (IF i <= Len(fetched)
                          THEN Enriched(formatted_results[i], fetched[i])
                          ELSE formatted_results[i])
    /\ (query_pc = "returned" /\ search_return # <<>>) =>
           query_result["raw_results"] = search_return
    /\ \A i \in 1..Len(formatted_results) :
           "full_content" \notin DOMAIN formatted_results[i]

\* report synthesis has come to its end on a candidate with fetched content,
\* on the success path
C27_Witness ==
    /\ report_pc = "returned"
    /\ Len(report_results) = 1
    /\ "full_content" \in DOMAIN report_results[1]
    /\ report # <<>>

\* C29: the requests for pages sent while the candidates of one search are
\* enriched number at most (max_retries + 1) * max_urls_to_crawl = 15, for
\* any number of candidates and any outcome of each request, and none is sent
\* for a candidate after the first max_urls_to_crawl.
C29_PageRequestsBounded ==
    /\ page_requests.total <= (max_retries + 1) * max_urls_to_crawl
    /\ page_requests.urls \subseteq Links(Take(search_results, max_urls_to_crawl))

\* more candidates than are crawled, and every crawled one was requested as
\* often as the retries allow
C29_Witness ==
    /\ enrich_pc = "done"
    /\ Len(search_results) > max_urls_to_crawl
    /\ page_requests.total = (max_retries + 1) * max_urls_to_crawl

\* the run has come to its end: process_query has returned (no_results or
\* search_and_report) or raised, the summarizer's enrichment has returned
Terminated == query_pc \in {"returned", "raised"} \/ summ_pc = "done"

\* a pass of a retry loop that is followed by another pass
RetriedPass(f, g) == f.pc = "running" /\ g.pc = "running" /\ g.requests > f.requests

\* every retried pass of a fetcher's loop increases its retry_count
AttemptCounted ==
    /\ RetriedPass(fetch, fetch') => fetch'.retry_count > fetch.retry_count
    /\ \A i \in 1..Len(tasks) :
           RetriedPass(tasks[i], tasks'[i]) =>
               tasks'[i].retry_count > tasks[i].retry_count

\* C30: as every awaited call returns, every run of process_query comes to
\* an end (no_results, a report, or a raised error) whatever the providers
\* answer, and so does the summarizer's enrichment; every retried pass of a
\* retry loop increases the loop's attempt counter.
C30_RunsTerminate == <>Terminated /\ [][AttemptCounted]_vars

\* process_query has returned after a fetch that used every retry
C30_Witness ==
    /\ query_pc = "returned"
    /\ page_requests.total = max_retries + 1
    /\ Len(fetched) = 1

=============================================================================
